---- MODULE Spec2Model ----
(***************************************************************************)
(* Front-end build tools (src/index.js): five pipeline stages and a viewer *)
(* launcher, each an adapter around one library call plus file I/O.  A     *)
(* stage can be called at any time; every call keeps its own state (its    *)
(* closure), followed here through its synchronous part and its callbacks. *)
(* The template engine's module-level environment and the process itself   *)
(* are shared by all calls.                                                *)
(***************************************************************************)
EXTENDS Naturals, Sequences, FiniteSets

VARIABLES
    call,       \* per slot, the state of one call: stage, args, promise,
                \* ops, prefix, fsOps, renderEnv
    env,        \* nunjucks' module-level environment `e`
    calls,      \* number of calls made so far
    crashed     \* an exception or unhandled rejection ended the process

vars == <<call, env, calls, crashed>>

----------------------------------------------------------------------------
(* Bounds and input domains *)

MaxCalls == 2
MaxPurge == 1

\* calls followed at the same time; a new call takes the place of one that
\* has nothing outstanding any more
Slots == {"a", "b"}

Undefined == "undefined"

TemplateDirs == {"views", "partials"}
Cwd == "."

\* globalVars: an object, seen through Object.keys as a sequence of
\* <<name, value>> pairs with distinct names (insertion order): none, one
\* name with either value, two names in either order
GlobalVarObjects ==
    { <<>>,
      << <<"siteName", "Acme">> >>,
      << <<"siteName", "Other">> >>,
      << <<"siteName", "Acme">>, <<"title", "Home">> >>,
      << <<"title", "Home">>, <<"siteName", "Acme">> >> }

NoArgs ==
    [inputPath |-> Undefined, outputPath |-> Undefined, templates |-> Undefined,
     globalVars |-> <<>>, srcSassPath |-> Undefined, destCssPath |-> Undefined,
     sassSourceMap |-> TRUE, browser |-> Undefined, path |-> Undefined]

\* every combination of present and omitted required fields; the global
\* variables vary in the calls that pass validation
NunjucksArgs ==
    {a \in {[NoArgs EXCEPT !.inputPath = i, !.outputPath = o, !.templates = t, !.globalVars = g] :
                i \in {Undefined, "home.njk"}, o \in {Undefined, "home.html"},
                t \in TemplateDirs \cup {Undefined}, g \in GlobalVarObjects} :
        Undefined \in {a.inputPath, a.outputPath, a.templates}
            => a.globalVars = <<<<"siteName", "Acme">>>>}

SassArgs ==
    {[NoArgs EXCEPT !.srcSassPath = s, !.destCssPath = d, !.sassSourceMap = m] :
        s \in {Undefined, "main.scss"}, d \in {Undefined, "main.css"}, m \in BOOLEAN}

BabelArgs ==
    {[NoArgs EXCEPT !.inputPath = i, !.outputPath = o] :
        i \in {Undefined, "index.js"}, o \in {Undefined, "index.min.js"}}

UglifyArgs ==
    {[NoArgs EXCEPT !.inputPath = i, !.outputPath = o] :
        i \in {Undefined, "app.js"}, o \in {Undefined, "app.min.js"}}

BeautifyArgs ==
    {[NoArgs EXCEPT !.inputPath = i, !.outputPath = o] :
        i \in {Undefined, "page.html"}, o \in {Undefined, "page.out.html"}}

BrowserArgs ==
    {[NoArgs EXCEPT !.browser = "Safari", !.path = "page.html"]}

----------------------------------------------------------------------------
(* Promises: the first settlement wins, later resolve()/reject() are no-ops *)

Pending == [state |-> "pending", value |-> "none"]

\* the call returns no promise
NoPromise == [state |-> "none", value |-> "none"]

Reject(p, e) == IF p.state = "pending" THEN [state |-> "rejected", value |-> e] ELSE p

Resolve(p) == IF p.state = "pending" THEN [state |-> "resolved", value |-> "none"] ELSE p

\* a throw out of a plain (non-async, non-executor) function: no promise is returned
Thrown(e) == [state |-> "threw", value |-> e]

NoOps ==
    [read |-> "none", write |-> "none", mapWrite |-> "none",
     collab |-> "none", compile |-> "none"]

Status(err) == IF err THEN "failed" ELSE "ok"

----------------------------------------------------------------------------
(* The template engine (nunjucks), as index.js uses it *)

NoEnv == [path |-> Undefined, globals |-> {}]

\* nunjucks.configure(path): a new Environment replaces the module-level one
Configure(path) == [path |-> path, globals |-> {}]

\* Environment.addGlobal(name, value)
AddGlobal(e, name, value) ==
    [e EXCEPT !.globals = {g \in @ : g[1] # name} \cup {<<name, value>>}]

\* the forEach over Object.keys(globalVars)
RECURSIVE ConfigureGlobals(_, _, _)
ConfigureGlobals(e, templates, globalVars) ==
    IF globalVars = <<>> THEN e
    ELSE ConfigureGlobals(AddGlobal(Configure(templates), Head(globalVars)[1], Head(globalVars)[2]),
                          templates, Tail(globalVars))

\* nunjucks.render: uses the module-level environment, configuring a default
\* one (search path: the working directory) when none exists
RenderingEnv(e) == IF e = NoEnv THEN Configure(Cwd) ELSE e

----------------------------------------------------------------------------
(* Calls *)

\* the state of a call of `stage` with options `a` as it starts
NewCall(stage, a) ==
    [stage |-> stage, args |-> a, promise |-> Pending, ops |-> NoOps,
     prefix |-> <<>>, fsOps |-> {}, renderEnv |-> NoEnv]

NoCall == NewCall("none", NoArgs)

\* nothing of the call is still outstanding
IdleCall(r) ==
    /\ \A f \in DOMAIN r.ops : r.ops[f] # "pending"
    /\ \A i \in DOMAIN r.prefix : r.prefix[i] # "prefixing"

FreeSlots == {c \in Slots : IdleCall(call[c])}

\* the slot a new call is followed in
FreeSlot == CHOOSE c \in FreeSlots : call[c].stage # "none" \/ \A d \in FreeSlots : call[d].stage = "none"

CanCall == ~crashed /\ calls < MaxCalls /\ FreeSlots # {}

\* the caller invokes a stage: `r` is the call after its synchronous part
Invoke(r) ==
    /\ CanCall
    /\ call' = [call EXCEPT ![FreeSlot] = r]
    /\ calls' = calls + 1
    /\ UNCHANGED crashed

\* a callback of call c runs and leaves it as r; `fatal`: an exception or an
\* unhandled rejection escaped and ended the process
Callback(c, r, fatal) ==
    /\ call' = [call EXCEPT ![c] = r]
    /\ crashed' = fatal
    /\ UNCHANGED <<env, calls>>

----------------------------------------------------------------------------
(* compileNunjucks *)

compileNunjucks(a) ==
    IF a.inputPath = Undefined
    THEN /\ Invoke([NewCall("compileNunjucks", a) EXCEPT !.promise = Reject(Pending, "No inputPath")])
         /\ UNCHANGED env
    ELSE IF a.outputPath = Undefined
    THEN /\ Invoke([NewCall("compileNunjucks", a) EXCEPT !.promise = Reject(Pending, "No outputPath")])
         /\ UNCHANGED env
    ELSE IF a.templates = Undefined
    THEN /\ Invoke([NewCall("compileNunjucks", a) EXCEPT !.promise = Reject(Pending, "No templates")])
         /\ UNCHANGED env
    ELSE /\ env' = RenderingEnv(ConfigureGlobals(env, a.templates, a.globalVars))
         /\ Invoke([NewCall("compileNunjucks", a) EXCEPT
                        !.renderEnv = env', !.ops = [NoOps EXCEPT !.collab = "pending"]])

\* the callback of nunjucks.render
NunjucksRenderCallback(c, err) ==
    /\ ~crashed
    /\ call[c].stage = "compileNunjucks"
    /\ call[c].ops.collab = "pending"
    /\ IF err
       THEN Callback(c, [call[c] EXCEPT !.promise = Reject(@, "RenderErr"),
                                        !.ops.collab = "failed"], FALSE)
       ELSE Callback(c, [call[c] EXCEPT !.ops.collab = "ok", !.ops.write = "pending",
                                        !.fsOps = @ \cup {<<"writeFile", call[c].args.outputPath>>}], FALSE)

\* the callback of fs.writeFile in compileNunjucks
NunjucksWriteCallback(c, err) ==
    /\ ~crashed
    /\ call[c].stage = "compileNunjucks"
    /\ call[c].ops.write = "pending"
    /\ Callback(c, [call[c] EXCEPT !.ops.write = Status(err),
                                   !.promise = IF err THEN Reject(@, "WriteErr") ELSE Resolve(@)], FALSE)

----------------------------------------------------------------------------
(* compileSassAndPurgeCss *)

\* a variant that awaits the CSS write only
PromiseAllCssOnly(css, map) ==
    IF css = "failed" THEN "rejected"
    ELSE IF css = "ok" THEN "fulfilled"
    ELSE "pending"

\* Promise.all([cssFinished, cssSourceMapFinished]): rejected as soon as one
\* write failed, fulfilled once both succeeded
PromiseAll(css, map) ==
    IF css = "failed" \/ map = "failed" THEN "rejected"
    ELSE IF css = "ok" /\ map = "ok" THEN "fulfilled"
    ELSE "pending"

\* the synchronous part of the async function, up to its first await
compileSassAndPurgeCss(a, compileThrows) ==
    /\ UNCHANGED env
    /\ IF a.srcSassPath = Undefined
       THEN Invoke([NewCall("compileSassAndPurgeCss", a) EXCEPT
                        !.promise = Reject(Pending, "No srcSassPath")])
       ELSE IF a.destCssPath = Undefined
       THEN Invoke([NewCall("compileSassAndPurgeCss", a) EXCEPT
                        !.promise = Reject(Pending, "No destCssPath")])
       ELSE IF compileThrows
       THEN Invoke([NewCall("compileSassAndPurgeCss", a) EXCEPT
                        !.promise = Reject(Pending, "CompileErr"),
                        !.ops.compile = "threw"])
       ELSE IF a.sassSourceMap = TRUE
       THEN Invoke([NewCall("compileSassAndPurgeCss", a) EXCEPT
                        !.ops.compile = "ok", !.ops.write = "pending", !.ops.mapWrite = "pending",
                        !.fsOps = {<<"writeFile", a.destCssPath>>,
                                   <<"writeFile", a.destCssPath \o ".map">>}])
       ELSE \* `new Promise()` without an executor throws a TypeError
            Invoke([NewCall("compileSassAndPurgeCss", a) EXCEPT
                        !.promise = Reject(Pending, "TypeError"),
                        !.ops.compile = "ok", !.ops.write = "pending",
                        !.fsOps = {<<"writeFile", a.destCssPath>>}])

\* the call r after one of its write callbacks left its operations as newOps:
\* what follows `await Promise.all(...)` runs when the function is suspended
\* there and Promise.all settles
SassAfterWrites(r, newOps) ==
    IF r.promise.state # "pending" \/ r.ops.collab # "none"
    THEN [r EXCEPT !.ops = newOps]
    ELSE IF PromiseAll(newOps.write, newOps.mapWrite) = "rejected"
    THEN [r EXCEPT !.ops = newOps,
                   !.promise = Reject(@, IF newOps.write = "failed" THEN "WriteErr" ELSE "MapWriteErr")]
    ELSE IF PromiseAll(newOps.write, newOps.mapWrite) = "fulfilled"
    THEN [r EXCEPT !.ops = [newOps EXCEPT !.collab = "pending"]]   \* new PurgeCSS().purge(...)
    ELSE [r EXCEPT !.ops = newOps]

\* the callback of the write of destCssPath; when the function threw before
\* Promise.all (no map write was set up) a failure rejects cssFinished with
\* no handler attached, which on some runtimes ends the process
SassCssWriteCallback(c, err, fatal) ==
    /\ ~crashed
    /\ call[c].stage = "compileSassAndPurgeCss"
    /\ call[c].ops.write = "pending"
    /\ fatal => (err /\ call[c].ops.mapWrite = "none")
    /\ Callback(c, SassAfterWrites(call[c], [call[c].ops EXCEPT !.write = Status(err)]), fatal)

\* the callback of the write of destCssPath + '.map'
SassMapWriteCallback(c, err) ==
    /\ ~crashed
    /\ call[c].stage = "compileSassAndPurgeCss"
    /\ call[c].ops.mapWrite = "pending"
    /\ Callback(c, SassAfterWrites(call[c], [call[c].ops EXCEPT !.mapWrite = Status(err)]), FALSE)

\* purge() settles with n results; the forEach starts one async callback per
\* result, each suspended on the prefixer, and the function returns
SassPurgeDone(c, err, n) ==
    /\ ~crashed
    /\ call[c].stage = "compileSassAndPurgeCss"
    /\ call[c].ops.collab = "pending"
    /\ IF err
       THEN Callback(c, [call[c] EXCEPT !.ops.collab = "failed",
                                        !.promise = Reject(@, "PurgeErr")], FALSE)
       ELSE Callback(c, [call[c] EXCEPT !.ops.collab = "ok",
                                        !.prefix = [i \in 1..n |-> "prefixing"],
                                        !.promise = Resolve(@)], FALSE)

PrefixOutcomes == {"written", "writeThrew", "prefixFailed"}

\* one forEach callback resumes: the prefixer failed (its promise never
\* resolves), or fs.writeFileSync saved the file or threw; both failures are
\* rejections nobody handles, which on some runtimes end the process
SassPrefixDone(c, i, outcome, fatal) ==
    /\ ~crashed
    /\ call[c].stage = "compileSassAndPurgeCss"
    /\ i \in DOMAIN call[c].prefix
    /\ call[c].prefix[i] = "prefixing"
    /\ fatal => outcome # "written"
    /\ Callback(c, [call[c] EXCEPT !.prefix[i] = outcome,
                                   !.fsOps = IF outcome = "prefixFailed" THEN @
                                             ELSE @ \cup {<<"writeFileSync", i>>}], fatal)

----------------------------------------------------------------------------
(* babelAndMinify *)

babelAndMinify(a) ==
    /\ UNCHANGED env
    /\ IF a.inputPath = Undefined
       THEN Invoke([NewCall("babelAndMinify", a) EXCEPT !.promise = Thrown("No inputPath")])
       ELSE IF a.outputPath = Undefined
       THEN Invoke([NewCall("babelAndMinify", a) EXCEPT !.promise = Thrown("No outputPath")])
       ELSE Invoke([NewCall("babelAndMinify", a) EXCEPT !.ops.collab = "pending"])   \* transformFileAsync(...)

\* transformFileAsync settles; only a fulfilment handler is attached, so a
\* failure is a rejection nobody handles, which on some runtimes ends the process
BabelTransformDone(c, err, fatal) ==
    /\ ~crashed
    /\ call[c].stage = "babelAndMinify"
    /\ call[c].ops.collab = "pending"
    /\ fatal => err
    /\ IF err
       THEN Callback(c, [call[c] EXCEPT !.ops.collab = "failed"], fatal)
       ELSE Callback(c, [call[c] EXCEPT !.ops.collab = "ok", !.ops.write = "pending",
                                        !.fsOps = @ \cup {<<"writeFile", call[c].args.outputPath>>}], FALSE)

\* the callback of fs.writeFile in babelAndMinify: an error is only logged
BabelWriteCallback(c, err) ==
    /\ ~crashed
    /\ call[c].stage = "babelAndMinify"
    /\ call[c].ops.write = "pending"
    /\ Callback(c, [call[c] EXCEPT !.ops.write = Status(err),
                                   !.promise = IF ~err THEN Resolve(@) ELSE @], FALSE)

----------------------------------------------------------------------------
(* uglify and beautifyHtml *)

\* fs.writeFile called from a read callback throws synchronously when the
\* path is undefined; when the data handed on is undefined (the read failed,
\* or the minifier reported an error and returned no code) the call throws
\* or a write is issued, depending on the runtime
WriteThrows(dataUndefined, outputPath, runtimeThrows) ==
    IF outputPath = Undefined THEN TRUE
    ELSE IF dataUndefined THEN runtimeThrows
    ELSE FALSE

\* the executor shared in shape by uglify and beautifyHtml: reject() does not
\* return, so the read is issued unless fs.readFile(undefined, ...) throws
ReadStage(stage, a) ==
    LET p1 == IF a.inputPath = Undefined THEN Reject(Pending, "No input path") ELSE Pending
        p2 == IF a.outputPath = Undefined THEN Reject(p1, "No output path") ELSE p1
    IN IF a.inputPath = Undefined
       THEN [NewCall(stage, a) EXCEPT !.promise = Reject(p2, "TypeError")]
       ELSE [NewCall(stage, a) EXCEPT !.promise = p2, !.ops.read = "pending",
                                      !.fsOps = {<<"readFile", a.inputPath>>}]

uglify(a) == Invoke(ReadStage("uglify", a)) /\ UNCHANGED env

\* the callback of fs.readFile in uglify; minifyErr: UglifyJS.minify reports
\* an error and returns no code (always so for the undefined data of a failed read)
UglifyReadCallback(c, err, minifyErr, runtimeThrows) ==
    /\ ~crashed
    /\ call[c].stage = "uglify"
    /\ call[c].ops.read = "pending"
    /\ err => minifyErr
    /\ runtimeThrows = WriteThrows(minifyErr, call[c].args.outputPath, runtimeThrows)
    /\ IF runtimeThrows
       THEN Callback(c, [call[c] EXCEPT !.ops.read = Status(err),
                                        !.promise = IF err THEN Reject(@, "ReadErr") ELSE @], TRUE)
       ELSE Callback(c, [call[c] EXCEPT !.ops.read = Status(err), !.ops.write = "pending",
                                        !.promise = IF err THEN Reject(@, "ReadErr") ELSE @,
                                        !.fsOps = @ \cup {<<"writeFile", call[c].args.outputPath>>}], FALSE)

\* the callback of fs.writeFile in uglify
UglifyWriteCallback(c, err) ==
    /\ ~crashed
    /\ call[c].stage = "uglify"
    /\ call[c].ops.write = "pending"
    /\ Callback(c, [call[c] EXCEPT !.ops.write = Status(err),
                                   !.promise = Resolve(IF err THEN Reject(@, "WriteErr") ELSE @)], FALSE)

beautifyHtml(a) == Invoke(ReadStage("beautifyHtml", a)) /\ UNCHANGED env

\* the callback of fs.readFile in beautifyHtml; after a failed read
\* pretty(undefined) is what reaches fs.writeFile: the formatter or the
\* write call throws, or a write is issued
BeautifyReadCallback(c, err, runtimeThrows) ==
    /\ ~crashed
    /\ call[c].stage = "beautifyHtml"
    /\ call[c].ops.read = "pending"
    /\ runtimeThrows = WriteThrows(err, call[c].args.outputPath, runtimeThrows)
    /\ IF runtimeThrows
       THEN Callback(c, [call[c] EXCEPT !.ops.read = Status(err),
                                        !.promise = IF err THEN Reject(@, "ReadErr") ELSE @], TRUE)
       ELSE Callback(c, [call[c] EXCEPT !.ops.read = Status(err), !.ops.write = "pending",
                                        !.promise = IF err THEN Reject(@, "ReadErr") ELSE @,
                                        !.fsOps = @ \cup {<<"writeFile", call[c].args.outputPath>>}], FALSE)

\* the callback of fs.writeFile in beautifyHtml
BeautifyWriteCallback(c, err) ==
    /\ ~crashed
    /\ call[c].stage = "beautifyHtml"
    /\ call[c].ops.write = "pending"
    /\ Callback(c, [call[c] EXCEPT !.ops.write = Status(err),
                                   !.promise = Resolve(IF err THEN Reject(@, "WriteErr") ELSE @)], FALSE)

----------------------------------------------------------------------------
(* openInBrowser *)

\* exec(`open -a ...`) is issued; nothing is returned to the caller
openInBrowser(a) ==
    /\ UNCHANGED env
    /\ Invoke([NewCall("openInBrowser", a) EXCEPT !.promise = NoPromise, !.ops.collab = "pending"])

\* the callback of exec: output is logged, an error is thrown from the callback
ExecCallback(c, err) ==
    /\ ~crashed
    /\ call[c].stage = "openInBrowser"
    /\ call[c].ops.collab = "pending"
    /\ Callback(c, [call[c] EXCEPT !.ops.collab = Status(err)], err)

----------------------------------------------------------------------------

Init ==
    /\ call = [c \in Slots |-> NoCall]
    /\ env = NoEnv
    /\ calls = 0
    /\ crashed = FALSE

Next ==
    \/ \E a \in NunjucksArgs : compileNunjucks(a)
    \/ \E c \in Slots, err \in BOOLEAN : NunjucksRenderCallback(c, err)
    \/ \E c \in Slots, err \in BOOLEAN : NunjucksWriteCallback(c, err)
    \/ \E a \in SassArgs, compileThrows \in BOOLEAN : compileSassAndPurgeCss(a, compileThrows)
    \/ \E c \in Slots, err \in BOOLEAN, fatal \in BOOLEAN : SassCssWriteCallback(c, err, fatal)
    \/ \E c \in Slots, err \in BOOLEAN : SassMapWriteCallback(c, err)
    \/ \E c \in Slots, err \in BOOLEAN, n \in 0..MaxPurge : SassPurgeDone(c, err, n)
    \/ \E c \in Slots, i \in 1..MaxPurge, outcome \in PrefixOutcomes, fatal \in BOOLEAN :
           SassPrefixDone(c, i, outcome, fatal)
    \/ \E a \in BabelArgs : babelAndMinify(a)
    \/ \E c \in Slots, err \in BOOLEAN, fatal \in BOOLEAN : BabelTransformDone(c, err, fatal)
    \/ \E c \in Slots, err \in BOOLEAN : BabelWriteCallback(c, err)
    \/ \E a \in UglifyArgs : uglify(a)
    \/ \E c \in Slots, err \in BOOLEAN, minifyErr \in BOOLEAN, runtimeThrows \in BOOLEAN :
           UglifyReadCallback(c, err, minifyErr, runtimeThrows)
    \/ \E c \in Slots, err \in BOOLEAN : UglifyWriteCallback(c, err)
    \/ \E a \in BeautifyArgs : beautifyHtml(a)
    \/ \E c \in Slots, err \in BOOLEAN, runtimeThrows \in BOOLEAN : BeautifyReadCallback(c, err, runtimeThrows)
    \/ \E c \in Slots, err \in BOOLEAN : BeautifyWriteCallback(c, err)
    \/ \E a \in BrowserArgs : openInBrowser(a)
    \/ \E c \in Slots, err \in BOOLEAN : ExecCallback(c, err)

Spec == Init /\ [][Next]_vars

----------------------------------------------------------------------------
(* Properties *)

FiveStages ==
    {"compileNunjucks", "compileSassAndPurgeCss", "babelAndMinify", "uglify", "beautifyHtml"}

\* the call r omits a field its stage requires
MissingRequired(r) ==
    \/ /\ r.stage = "compileNunjucks"
       /\ Undefined \in {r.args.inputPath, r.args.outputPath, r.args.templates}
    \/ /\ r.stage = "compileSassAndPurgeCss"
       /\ Undefined \in {r.args.srcSassPath, r.args.destCssPath}
    \/ /\ r.stage \in {"babelAndMinify", "uglify", "beautifyHtml"}
       /\ Undefined \in {r.args.inputPath, r.args.outputPath}

\* the render of the compileNunjucks call r has been issued
RenderIssued(r) == r.stage = "compileNunjucks" /\ r.ops.collab # "none"

\* C1: a call of any of the five stages that omits a required field fails
\* at once, and no file read, file write or library call is ever issued by it.
C1_MissingFieldNoIO ==
    \A c \in Slots :
        MissingRequired(call[c]) =>
            /\ call[c].promise.state \in {"rejected", "threw"}
            /\ call[c].fsOps = {}
            /\ call[c].ops = NoOps

\* C2: when a stage's promise is resolved every output file of the stage has
\* been written, for compileSassAndPurgeCss including the overwrite of every
\* purge result's file with its prefixed CSS.
C2_OutputsWrittenBeforeResolve ==
    \A c \in Slots :
        call[c].promise.state = "resolved" =>
            /\ call[c].ops.write = "ok"
            /\ call[c].stage = "compileSassAndPurgeCss" =>
                   /\ call[c].ops.mapWrite = "ok"
                   /\ \A i \in DOMAIN call[c].prefix : call[c].prefix[i] = "written"

\* C3: the style source map is optional: after a successful compile the map
\* file is written exactly when sassSourceMap is true, the call does not fail
\* because sassSourceMap is false, and once the requested writes succeeded
\* the purge step runs.
C3_SourceMapOptional ==
    \A c \in Slots :
        (/\ call[c].stage = "compileSassAndPurgeCss"
         /\ ~MissingRequired(call[c])
         /\ call[c].ops.compile = "ok") =>
            /\ <<"writeFile", call[c].args.destCssPath>> \in call[c].fsOps
            /\ (<<"writeFile", call[c].args.destCssPath \o ".map">> \in call[c].fsOps)
                   <=> (call[c].args.sassSourceMap = TRUE)
            /\ call[c].promise # [state |-> "rejected", value |-> "TypeError"]
            /\ (/\ call[c].ops.write = "ok"
                /\ call[c].args.sassSourceMap = TRUE => call[c].ops.mapWrite = "ok")
                   => call[c].ops.collab # "none"

\* C4: in babelAndMinify a failed transform rejects the returned promise with
\* the transform error, and nothing is written to outputPath.
C4_TransformErrorRejects ==
    \A c \in Slots :
        (call[c].stage = "babelAndMinify" /\ call[c].ops.collab = "failed") =>
            /\ call[c].promise = [state |-> "rejected", value |-> "TransformErr"]
            /\ <<"writeFile", call[c].args.outputPath>> \notin call[c].fsOps

\* C5: in uglify and beautifyHtml, whenever the read of inputPath fails the
\* promise is rejected with the read error, whenever the write of outputPath
\* fails (after a successful read) it is rejected with the write error, it is
\* never resolved in either case although resolve() is called after
\* reject(), and it is resolved only when both the read and the write succeeded.
C5_ReadOrWriteErrorRejects ==
    \A c \in Slots :
        call[c].stage \in {"uglify", "beautifyHtml"} =>
            /\ call[c].ops.read = "failed"
                   => call[c].promise = [state |-> "rejected", value |-> "ReadErr"]
            /\ (call[c].ops.read = "ok" /\ call[c].ops.write = "failed")
                   => call[c].promise = [state |-> "rejected", value |-> "WriteErr"]
            /\ call[c].ops.write = "failed" => call[c].promise.state = "rejected"
            /\ call[c].promise.state = "resolved"
                   => (call[c].ops.read = "ok" /\ call[c].ops.write = "ok")

\* C6: every global variable supplied to compileNunjucks is registered, with
\* its value, in the environment that performs the render.
C6_AllGlobalsRegistered ==
    \A c \in Slots :
        RenderIssued(call[c]) =>
            \A i \in 1..Len(call[c].args.globalVars) :
                call[c].args.globalVars[i] \in call[c].renderEnv.globals

\* C7: calls are independent: the environment that renders a compileNunjucks
\* call (globals and search path) is the one the same call would get with no
\* earlier call, and no global of an earlier call is visible in it.
C7_CallsIndependent ==
    \A c \in Slots :
        RenderIssued(call[c]) =>
            /\ call[c].renderEnv =
                   RenderingEnv(ConfigureGlobals(NoEnv, call[c].args.templates, call[c].args.globalVars))
            /\ call[c].renderEnv.globals \subseteq
                   {call[c].args.globalVars[i] : i \in 1..Len(call[c].args.globalVars)}

\* C8: in compileSassAndPurgeCss both writes are issued only after the
\* compile returned and are issued together; the purge starts only after
\* both writes succeeded; when the compile threw or a write failed the purge
\* has not started and the promise is rejected.
C8_CompileWritePurgeOrder ==
    \A c \in Slots :
        call[c].stage = "compileSassAndPurgeCss" =>
            /\ (call[c].ops.write # "none" \/ call[c].ops.mapWrite # "none")
                   => call[c].ops.compile = "ok"
            /\ call[c].ops.mapWrite # "none" => call[c].ops.write # "none"
            /\ (call[c].ops.write # "none" /\ call[c].args.sassSourceMap = TRUE)
                   => call[c].ops.mapWrite # "none"
            /\ call[c].ops.collab # "none"
                   => (call[c].ops.write = "ok" /\ call[c].ops.mapWrite = "ok")
            /\ (\/ call[c].ops.compile = "threw"
                \/ call[c].ops.write = "failed"
                \/ call[c].ops.mapWrite = "failed")
                   => (call[c].ops.collab = "none" /\ call[c].promise.state = "rejected")

\* C8 witness: the purge has started, after both writes completed successfully.
C8_Witness ==
    \E c \in Slots :
        /\ call[c].stage = "compileSassAndPurgeCss"
        /\ call[c].ops.compile = "ok"
        /\ call[c].ops.write = "ok"
        /\ call[c].ops.mapWrite = "ok"
        /\ call[c].ops.collab = "pending"

\* C9: every stage's promise settles: once every library and file-system
\* call of a call has completed or failed, its promise is no longer pending.
C9_PromiseSettles ==
    \A c \in Slots :
        (call[c].stage \in FiveStages /\ IdleCall(call[c]))
            => call[c].promise.state # "pending"

\* C10: in a compileNunjucks call that passes validation the environment
\* that renders is configured with the supplied template search path.
C10_TemplatesConfigured ==
    \A c \in Slots :
        RenderIssued(call[c]) => call[c].renderEnv.path = call[c].args.templates

====
